---- MODULE Spec2Model ----
(***************************************************************************)
(* A model of the organism core of Opus (src/src/organism.rs): the         *)
(* geometric Body, the gene fold apply_gene_effects, calculate_movement,   *)
(* mutate, Organism::new, reproduce and the per-frame step next_frame.     *)
(*                                                                         *)
(* Number representations                                                  *)
(*   isize   an Integer (the values of the model stay far from 2^63).      *)
(*   f32     an Integer k standing for k * 2^-27.  0.1f32 is exactly       *)
(*           13421773 * 2^-27.  Every f32 of magnitude in [2^-4, 16) and   *)
(*           every multiple of 2^-27 below 2^-3 is such a k, and the exact *)
(*           sum or product of two of them is again a multiple of 2^-27,   *)
(*           so f32 arithmetic is the exact integer operation followed by  *)
(*           RoundF32 (24-bit significand, round to nearest, ties to       *)
(*           even), as IEEE 754 defines it.                                *)
(*   f64     (square coordinates) an Integer h standing for h / 2.  The    *)
(*           coordinates of the model are small multiples of 0.5, on which *)
(*           f64 subtraction, addition and squaring are exact.             *)
(***************************************************************************)
EXTENDS Integers, Sequences, FiniteSets, TLC

VARIABLES
    org,      \* the organism a driver advances (a record, see MkOrganism)
    ret,      \* what the last next_frame call returned: [state, offspring]
    pre,      \* the organism as it was when the last next_frame call began
    roll,     \* the locals of the last call: the two rolls and the candidate
    frames,   \* number of next_frame calls made on org
    genome,   \* FoldSpec: the genes handed to apply_gene_effects and new
    attrs,    \* FoldSpec: <<a>> once apply_gene_effects gave a, else <<>>
    newRes,   \* FoldSpec: outcome of the last Organism::new(id, genome)
    body,     \* GeomSpec: the squares of the body a blueprint is checked against
    proposed, \* GeomSpec: the proposed squares
    valid,    \* GeomSpec: <<b>> once check_blueprint_validity gave b, else <<>>
    pop,      \* PopSpec: World.organisms, the organisms a driver owns
    start,    \* PopSpec: pop as it was when the current tick began
    draws,    \* PopSpec: the random draws fixed for each slot of pop this tick
    results,  \* PopSpec: per slot, <<r>> once next_frame returned r this tick
    phase,    \* PopSpec: "idle", "running" (a tick is under way) or "ended"
    ticks,    \* PopSpec: number of ticks completed
    founders  \* PopSpec: the organisms the population began with

popVars == <<pop, start, draws, results, phase, ticks, founders>>

vars == <<org, ret, pre, roll, frames, genome, attrs, newRes, body, proposed, valid,
          popVars>>

----------------------------------------------------------------------------
(* f32 and f64 arithmetic *)

Abs(x) == IF x < 0 THEN -x ELSE x

\* `as isize` of a quotient: truncation toward zero (Rust float-to-int cast)
TruncDiv(x, d) == IF x >= 0 THEN x \div d ELSE -((-x) \div d)

\* one f32 unit is 2^-27, so 1.0f32 is 2^27
F32One == 2^27

\* significand width of f32
F32Mantissa == 2^24

RECURSIVE ShiftFor(_, _)
\* the number of low bits a magnitude a must lose to fit 24 bits
ShiftFor(a, s) == IF a \div (2^s) < F32Mantissa THEN s ELSE ShiftFor(a, s + 1)

\* round an exact value (in 2^-27 units) to the nearest f32, ties to even
RoundF32(k) ==
    LET a == Abs(k)
        s == ShiftFor(a, 0)
        q == a \div (2^s)
        r == a % (2^s)
        half == IF s = 0 THEN 0 ELSE 2^(s - 1)
        up == s > 0 /\ (r > half \/ (r = half /\ q % 2 = 1))
        m == (IF up THEN q + 1 ELSE q) * (2^s)
    IN  IF k < 0 THEN -m ELSE m

\* f32 + f32
AddF32(a, b) == RoundF32(a + b)

\* f32 * (n as f32) for a small count n
MulF32(a, n) == RoundF32(a * n)

\* (x as isize) for an f32 x
F32ToIsize(a) == TruncDiv(a, F32One)

----------------------------------------------------------------------------
(* Body: squares are <<x, y>> in half units; a body is its sequence of squares *)

\* a comparison that lets the distance 1.5 itself pass
MagnitudeAtMostThreshold(dx, dy) == dx * dx + dy * dy <= 9

\* diff.magnitude() < 1.5 for diff = (dx/2, dy/2): dx^2 + dy^2 < 9 quarter units
\* (sqrt is monotonic and exact enough on these values: the nearest sums to
\* 2.25 are 2.0 and 2.5)
MagnitudeBelowThreshold(dx, dy) == dx * dx + dy * dy < 9

\* Body::is_adjacent: any existing square closer than 1.5 to the square
IsAdjacent(squares, square) ==
    \E i \in 1..Len(squares) :
        MagnitudeBelowThreshold(square[1] - squares[i][1], square[2] - squares[i][2])

RECURSIVE CheckBlueprintValidity(_, _)
\* Body::check_blueprint_validity: the loop returns false at the first
\* proposed square that is not adjacent, true when it runs out of squares
CheckBlueprintValidity(squares, proposed_squares) ==
    IF proposed_squares = <<>> THEN TRUE
    ELSE IF ~IsAdjacent(squares, Head(proposed_squares)) THEN FALSE
    ELSE CheckBlueprintValidity(squares, Tail(proposed_squares))

----------------------------------------------------------------------------
(* Genes and attributes.  A gene is [kind, num, bodies]: kind is the         *)
(* AttributeType variant, num its isize or f32 payload, bodies the payload   *)
(* of BodyStates (Gene.id, Gene.name and Gene.value are read nowhere).       *)

\* 0.1f32 = 13421773 * 2^-27
F32Tenth == 13421773

\* Attribute::default_attributes
DefaultAttributes ==
    [max_energy |-> 1000, max_age |-> 1000, max_size |-> 1000,
     reproduction_rate |-> F32Tenth, mutation_rate |-> F32Tenth,
     puberty_age |-> 100, body_states |-> <<>>, metabolism |-> F32Tenth]

\* a fold whose BodyStates arm replaces the list instead of extending it and
\* whose MaxSize arm writes max_energy
ApplyGeneReplacing(a, gene) ==
    CASE gene.kind = "MaxEnergy" -> [a EXCEPT !.max_energy = @ + gene.num]
      [] gene.kind = "MaxAge" -> [a EXCEPT !.max_age = @ + gene.num]
      [] gene.kind = "MaxSize" -> [a EXCEPT !.max_energy = @ + gene.num]
      [] gene.kind = "ReproductionRate" ->
            [a EXCEPT !.reproduction_rate = AddF32(@, gene.num)]
      [] gene.kind = "MutationRate" ->
            [a EXCEPT !.mutation_rate = AddF32(@, gene.num)]
      [] gene.kind = "PubertyAge" -> [a EXCEPT !.puberty_age = @ + gene.num]
      [] gene.kind = "BodyStates" -> [a EXCEPT !.body_states = gene.bodies]
      [] gene.kind = "Metabolism" -> [a EXCEPT !.metabolism = AddF32(@, gene.num)]

\* one arm of the match in apply_gene_effects
ApplyGene(a, gene) ==
    CASE gene.kind = "MaxEnergy" -> [a EXCEPT !.max_energy = @ + gene.num]
      [] gene.kind = "MaxAge" -> [a EXCEPT !.max_age = @ + gene.num]
      [] gene.kind = "MaxSize" -> [a EXCEPT !.max_size = @ + gene.num]
      [] gene.kind = "ReproductionRate" ->
            [a EXCEPT !.reproduction_rate = AddF32(@, gene.num)]
      [] gene.kind = "MutationRate" ->
            [a EXCEPT !.mutation_rate = AddF32(@, gene.num)]
      [] gene.kind = "PubertyAge" -> [a EXCEPT !.puberty_age = @ + gene.num]
      [] gene.kind = "BodyStates" -> [a EXCEPT !.body_states = @ \o gene.bodies]
      [] gene.kind = "Metabolism" -> [a EXCEPT !.metabolism = AddF32(@, gene.num)]

RECURSIVE ApplyGeneEffects(_, _)
\* Organism::apply_gene_effects: every gene of the genome, in genome order
ApplyGeneEffects(a, genes) ==
    IF genes = <<>> THEN a
    ELSE ApplyGeneEffects(ApplyGene(a, Head(genes)), Tail(genes))

IntGene(kind, n) == [kind |-> kind, num |-> n, bodies |-> <<>>]
BodyGene(bodies) == [kind |-> "BodyStates", num |-> 0, bodies |-> bodies]

----------------------------------------------------------------------------
(* Organism: [id, genome, energy, age, location, body_squares,               *)
(* current_body_state, attributes]; location is <<x, y>> in whole units.    *)

RECURSIVE SumDeltas(_, _)
\* the loop of calculate_movement over current.zip(new): each coordinate of
\* delta is cast to isize (truncated toward zero) before it is added
SumDeltas(current_squares, new_squares) ==
    IF current_squares = <<>> \/ new_squares = <<>> THEN <<0, 0>>
    ELSE LET c == Head(current_squares)
             n == Head(new_squares)
             rest == SumDeltas(Tail(current_squares), Tail(new_squares))
         IN  <<TruncDiv(n[1] - c[1], 2) + rest[1], TruncDiv(n[2] - c[2], 2) + rest[2]>>

\* scaling_factor of calculate_movement
ScalingFactor == -2

\* Organism::calculate_movement
CalculateMovement(current_body, new_body) ==
    LET movement == SumDeltas(current_body, new_body)
    IN  <<movement[1] * ScalingFactor, movement[2] * ScalingFactor>>

RECURSIVE MutateBodies(_, _)
\* the loops of mutate: offs holds one <<dx, dy>> draw (half units) per square
\* of body_states, in the order the generator is asked for them
MutateBodies(body_states, offs) ==
    IF body_states = <<>> THEN <<>>
    ELSE LET b == Head(body_states)
             n == Len(b)
         IN  <<[i \in 1..n |-> <<b[i][1] + offs[i][1], b[i][2] + offs[i][2]>>]>>
             \o MutateBodies(Tail(body_states), SubSeq(offs, n + 1, Len(offs)))

\* a mutate that also moves the current body onto the new first body state
MutateCurrentBody(o, offs) ==
    [o EXCEPT !.attributes.body_states = MutateBodies(@, offs),
              !.body_squares = MutateBodies(o.attributes.body_states, offs)[1]]

\* a mutate that loses the last body state of a list of several
MutateDroppingLast(o, offs) ==
    LET m == MutateBodies(o.attributes.body_states, offs)
    IN  [o EXCEPT !.attributes.body_states =
                      IF Len(m) > 1 THEN SubSeq(m, 1, Len(m) - 1) ELSE m]

\* Organism::mutate: body_states is replaced, nothing else is written
Mutate(o, offs) ==
    [o EXCEPT !.attributes.body_states = MutateBodies(@, offs)]

\* Organism::new: the body is read from the default attributes before the
\* genes are applied (line 167 precedes line 178), and indexing an empty
\* body_states panics.  The result is [panicked, organism]: organism is
\* <<o>> when the call returns o and <<>> when it panics.
New(id, g) ==
    LET attributes == DefaultAttributes
    IN  IF Len(attributes.body_states) < 1
        THEN [panicked |-> TRUE, organism |-> <<>>]
        ELSE [panicked |-> FALSE,
              organism |->
                <<[id |-> id, genome |-> g, energy |-> 1000, age |-> 0,
                   location |-> <<0, 0>>,
                   body_squares |-> attributes.body_states[1],
                   current_body_state |-> 0,
                   attributes |-> ApplyGeneEffects(attributes, g)]>>]

\* a reproduce that gives the offspring its own first body state as its body
ReproduceFromFirstState(self, jitter, offs) ==
    LET attributes == Mutate(self, offs).attributes
    IN  [id |-> self.id, genome |-> self.genome,
         energy |-> TruncDiv(self.energy, 2), age |-> 0,
         location |-> <<self.location[1] + jitter[1], self.location[2] + jitter[2]>>,
         body_squares |-> attributes.body_states[1], current_body_state |-> 0,
         attributes |-> attributes]

\* Organism::reproduce: jitter is the <<x, y>> location offset, offs the draws
\* of the offspring's mutate
Reproduce(self, jitter, offs) ==
    Mutate([id |-> self.id, genome |-> self.genome,
            energy |-> TruncDiv(self.energy, 2), age |-> 0,
            location |-> <<self.location[1] + jitter[1], self.location[2] + jitter[2]>>,
            body_squares |-> self.body_squares, current_body_state |-> 0,
            attributes |-> self.attributes], offs)

\* an index that is advanced and never wrapped
CycleWithoutWrap(o) == o.current_body_state + 1

\* next_frame, lines 213-217
CycleBodyState(o) ==
    IF o.current_body_state < Len(o.attributes.body_states) - 1
    THEN o.current_body_state + 1 ELSE 0

\* the body state read after the index has been advanced
NextBodyAdvanced(o) == o.attributes.body_states[CycleBodyState(o) + 1]

\* next_frame, lines 203-210: the body state at the index, or the first one
NextBody(o) ==
    LET bs == o.attributes.body_states
        i == o.current_body_state
    IN  IF i >= 0 /\ i < Len(bs) THEN bs[i + 1] ELSE bs[1]

\* a drain with the sign of the product lost
DrainNegated(o) == -F32ToIsize(MulF32(o.attributes.metabolism, Len(o.body_squares)))

\* next_frame, lines 218-219: (metabolism * len as f32) as isize
Drain(o) == F32ToIsize(MulF32(o.attributes.metabolism, Len(o.body_squares)))

\* next_frame, lines 202-219: movement, body-state cycling, energy drain
MoveCycleDrain(o) ==
    LET ds == CalculateMovement(o.body_squares, NextBody(o))
    IN  [o EXCEPT !.location = <<@[1] + ds[1], @[2] + ds[2]>>,
                  !.current_body_state = CycleBodyState(o),
                  !.energy = @ - Drain(o)]

\* a starvation check that lets energy 0 live
StarvedBelowZero(o) == o.energy < 0

\* next_frame, line 221: the starvation check after the drain
Starved(o) == o.energy <= 0

\* an old-age check that is one frame late
TooOldLate(o) == o.age > o.attributes.max_age

\* an old-age check that fires at max_age only
TooOldExactly(o) == o.age = o.attributes.max_age

\* next_frame, line 226: the old-age check after the increment of age
TooOld(o) == o.age >= o.attributes.max_age

\* a frame that forgets to count
AgedNot(o) == o

\* next_frame, line 225: self.age += 1
Aged(o) == [o EXCEPT !.age = @ + 1]

\* a charge of the half the parent keeps, the energy rounded up
ChargeRoundedUp(o, will_reproduce, offspring) ==
    IF will_reproduce THEN [o EXCEPT !.energy = @ - (@ - offspring.energy)] ELSE o

\* next_frame, lines 238-240: the parent pays for the offspring when the
\* reproduction roll passed
Charge(o, will_reproduce, offspring) ==
    IF will_reproduce THEN [o EXCEPT !.energy = @ - offspring.energy] ELSE o

\* next_frame, lines 241-246: some body of the offspring fails the check
\* against the parent's body_squares
Abort(o, will_reproduce, offspring) ==
    /\ will_reproduce
    /\ \E k \in 1..Len(offspring.attributes.body_states) :
          ~CheckBlueprintValidity(o.body_squares, offspring.attributes.body_states[k])

\* a result that forgets the abort flag
EmitUnchecked(abort, will_reproduce, offspring) ==
    IF will_reproduce THEN <<offspring>> ELSE <<>>

\* next_frame, lines 249-255
Emit(abort, will_reproduce, offspring) ==
    IF abort THEN <<>> ELSE IF will_reproduce THEN <<offspring>> ELSE <<>>

\* Organism::next_frame.  d1 and d2 are the two f32 draws from [0, 1), pm the
\* draws of the parent's mutate, jitter and om those of reproduce.  The result
\* is the organism after the call, the returned state and Option<Organism>
\* (<<>> is None), the two rolls (drawn is FALSE when the call returned before
\* line 229) and the candidate offspring built at line 237.
NextFrameOp(o, d1, d2, pm, jitter, om) ==
    LET o1 == MoveCycleDrain(o)
        o2 == Aged(o1)
        will_mutate == d1 < o2.attributes.mutation_rate
        o3 == IF will_mutate THEN Mutate(o2, pm) ELSE o2
        will_reproduce == d2 < o3.attributes.reproduction_rate
        offspring == Reproduce(o3, jitter, om)
        o4 == Charge(o3, will_reproduce, offspring)
        abort == Abort(o3, will_reproduce, offspring)
        early == [state |-> "Dead", offspring |-> <<>>, drawn |-> FALSE,
                  will_mutate |-> FALSE, will_reproduce |-> FALSE,
                  candidate |-> <<>>]
    IN  IF Starved(o1) THEN [org |-> o1] @@ early
        ELSE IF TooOld(o2) THEN [org |-> o2] @@ early
        ELSE [org |-> o4, state |-> "Alive",
              offspring |-> Emit(abort, will_reproduce, offspring), drawn |-> TRUE,
              will_mutate |-> will_mutate, will_reproduce |-> will_reproduce,
              candidate |-> <<offspring>>]

----------------------------------------------------------------------------
(* The lifecycle specification: a driver advances one organism frame by     *)
(* frame.  Organism::new cannot return an organism (see New), so the        *)
(* organism is the one a caller assembles from the public fields the way    *)
(* new lays them out: attributes folded from the genome, body_squares the   *)
(* first body state, age 0, index 0, location (0, 0).                       *)

\* calls of next_frame made on the organism
MaxFrames == 4

\* energy at the first frame: 1000 is the value Organism::new sets, the small
\* ones are those of late descendants (an offspring gets half its parent's)
StartEnergies == {0, 1, 2, 3, 7, 1000}

\* the f32 draws of gen_range(0.0..1.0): 0.0 and 0.5
Draws == {0, F32One \div 2}

\* the f64 draws of gen_range(-1.0..1.0) in half units: -1.0 and 0.5
MutOffsets == {-2, 1}

\* draws of gen_range(-1..1) for the two axes of the location offset
Jitters == {-1, 0} \X {-1, 0}

F32Gene(kind, n) == [kind |-> kind, num |-> n, bodies |-> <<>>]

\* one body state of one square at the origin
OneState == << <<<<0, 0>>>> >>

\* two body states of one square, the second one unit along x
TwoStates == << <<<<0, 0>>>>, <<<<2, 0>>>> >>

\* a first state of two squares and a second of one (lengths differ)
UnevenStates == << <<<<0, 0>>, <<2, 0>>>>, <<<<2, 0>>>> >>

\* the genomes of the lifecycle.  MaxAge(-997) and MaxAge(-998) give max_age
\* 3 and 2; Metabolism(0.9f32) gives metabolism 1.0, Metabolism(-1.1f32)
\* gives -1.0; MutationRate(-0.1f32) gives mutation_rate 0.0; MaxAge(-1001)
\* gives max_age -1, MaxAge(-999) max_age 1.
LifeGenomes ==
    { <<BodyGene(OneState), IntGene("MaxAge", -997)>>,
      <<BodyGene(OneState), IntGene("MaxAge", -997), F32Gene("Metabolism", 120795952)>>,
      <<F32Gene("Metabolism", -147639504), BodyGene(OneState), IntGene("MaxAge", -997)>>,
      <<BodyGene(TwoStates), IntGene("MaxAge", -998)>>,
      <<BodyGene(<<TwoStates[1]>>), IntGene("MaxAge", -998),
        F32Gene("Metabolism", 120795952), BodyGene(<<TwoStates[2]>>)>>,
      <<BodyGene(UnevenStates), IntGene("MaxAge", -998),
        F32Gene("Metabolism", 120795952), F32Gene("MutationRate", -13421773)>>,
      <<IntGene("MaxAge", -1001), BodyGene(OneState), F32Gene("MutationRate", -13421773)>>,
      <<BodyGene(OneState), IntGene("MaxAge", -999)>> }

\* the organism assembled field by field (struct Organism, all fields pub)
Assemble(id, g, energy) ==
    LET attributes == ApplyGeneEffects(DefaultAttributes, g)
    IN  [id |-> id, genome |-> g, energy |-> energy, age |-> 0,
         location |-> <<0, 0>>, body_squares |-> attributes.body_states[1],
         current_body_state |-> 0, attributes |-> attributes]

RECURSIVE TotalSquares(_)
TotalSquares(body_states) ==
    IF body_states = <<>> THEN 0
    ELSE Len(Head(body_states)) + TotalSquares(Tail(body_states))

\* all draws one mutate call can make on body_states
OffsetChoices(body_states) ==
    [1..TotalSquares(body_states) -> MutOffsets \X MutOffsets]

NoOffsets(body_states) == [i \in 1..TotalSquares(body_states) |-> <<0, 0>>]

NoCall == [state |-> "NoCall", offspring |-> <<>>]
NoRoll == [drawn |-> FALSE, will_mutate |-> FALSE, will_reproduce |-> FALSE,
           candidate |-> <<>>]

NotBuilt == [panicked |-> FALSE, organism |-> <<>>]

\* the variables of the other two specifications at rest
FoldIdle == genome = <<>> /\ attrs = <<>> /\ newRes = NotBuilt
GeomIdle == body = <<>> /\ proposed = <<>> /\ valid = <<>>
PopIdle ==
    /\ pop = <<>> /\ start = <<>> /\ draws = <<>> /\ results = <<>>
    /\ phase = "idle" /\ ticks = 0 /\ founders = <<>>

Init ==
    /\ org \in {Assemble(1, g, e) : g \in LifeGenomes, e \in StartEnergies}
    /\ ret = NoCall
    /\ pre = org
    /\ roll = NoRoll
    /\ frames = 0
    /\ FoldIdle
    /\ GeomIdle
    /\ PopIdle

\* one next_frame call on the organism.  Draws that the call never reads (the
\* mutate draws when the mutation roll fails, the draws of an offspring that
\* is dropped, every draw after a Dead return) are fixed rather than
\* enumerated: they leave no trace in the state.
NextFrame ==
    /\ frames < MaxFrames
    /\ \E d1 \in Draws, d2 \in Draws :
         LET o1 == MoveCycleDrain(org)
             alive == ~Starved(o1) /\ ~TooOld(Aged(o1))
             wm == alive /\ d1 < org.attributes.mutation_rate
             wr == alive /\ d2 < org.attributes.reproduction_rate
             bs == org.attributes.body_states
         IN  \E pm \in (IF wm THEN OffsetChoices(bs) ELSE {NoOffsets(bs)}),
                jitter \in (IF wr THEN Jitters ELSE {<<0, 0>>}),
                om \in (IF wr THEN OffsetChoices(bs) ELSE {NoOffsets(bs)}) :
               LET r == NextFrameOp(org, d1, d2, pm, jitter, om)
               IN  /\ org' = r.org
                   /\ ret' = [state |-> r.state, offspring |-> r.offspring]
                   /\ roll' = [drawn |-> r.drawn, will_mutate |-> r.will_mutate,
                               will_reproduce |-> r.will_reproduce,
                               candidate |-> r.candidate]
    /\ pre' = org
    /\ frames' = frames + 1
    /\ UNCHANGED <<genome, attrs, newRes, body, proposed, valid, popVars>>

Next == NextFrame

Spec == Init /\ [][Next]_vars

----------------------------------------------------------------------------
(* The construction specification: a genome is drawn, apply_gene_effects    *)
(* folds it onto the default attributes, and Organism::new is called on it. *)

\* longest genome drawn
MaxGenes == 3

RECURSIVE SeqsUpTo(_, _)
\* all sequences over S of length at most n
SeqsUpTo(S, n) ==
    IF n = 0 THEN {<<>>}
    ELSE LET shorter == SeqsUpTo(S, n - 1)
         IN  shorter \cup {Append(q, x) : q \in shorter, x \in S}

\* the genes genomes are drawn from: one of each scalar kind, the f32 deltas
\* 0.5, -0.1, 0.5 and -0.5, and two body-state lists
FoldGenes ==
    { IntGene("MaxEnergy", 5), IntGene("MaxAge", -997), IntGene("MaxSize", -3),
      IntGene("PubertyAge", 7),
      F32Gene("ReproductionRate", 67108864), F32Gene("MutationRate", -13421773),
      F32Gene("Metabolism", 67108864), F32Gene("Metabolism", -67108864),
      BodyGene(OneState), BodyGene(<<TwoStates[2], UnevenStates[1]>>) }

\* the ids handed to Organism::new
Ids == {1, 2}

\* the lifecycle variables at rest
LifeIdle == org = <<>> /\ ret = NoCall /\ pre = <<>> /\ roll = NoRoll /\ frames = 0

FoldInit ==
    /\ genome \in SeqsUpTo(FoldGenes, MaxGenes)
    /\ attrs = <<>>
    /\ newRes = NotBuilt
    /\ LifeIdle
    /\ GeomIdle
    /\ PopIdle

\* apply_gene_effects on an organism that holds the default attributes
ApplyEffects ==
    /\ attrs = <<>>
    /\ attrs' = <<ApplyGeneEffects(DefaultAttributes, genome)>>
    /\ UNCHANGED <<org, ret, pre, roll, frames, genome, newRes, body, proposed, valid, popVars>>

\* Organism::new(id, genome)
CallNew ==
    /\ newRes = NotBuilt
    /\ \E id \in Ids : newRes' = New(id, genome)
    /\ UNCHANGED <<org, ret, pre, roll, frames, genome, attrs, body, proposed, valid, popVars>>

FoldNext == ApplyEffects \/ CallNew

FoldSpec == FoldInit /\ [][FoldNext]_vars

----------------------------------------------------------------------------
(* The geometry specification: check_blueprint_validity on drawn inputs *)

\* most squares in the body checked against
MaxBodyLen == 2

\* most proposed squares
MaxProposed == 2

\* squares of the body: the origin, (1, 0) and (0, 2)
BodyPoints == {<<0, 0>>, <<2, 0>>, <<0, 4>>}

\* proposed squares: x in {-2, -1.5, 0, 1, 1.5}, y in {0, 1, 1.5}
ProposedPoints == {-4, -3, 0, 2, 3} \X {0, 2, 3}

GeomInit ==
    /\ body \in SeqsUpTo(BodyPoints, MaxBodyLen)
    /\ proposed \in SeqsUpTo(ProposedPoints, MaxProposed)
    /\ valid = <<>>
    /\ LifeIdle
    /\ FoldIdle
    /\ PopIdle

\* body.check_blueprint_validity(proposed)
CheckBlueprint ==
    /\ valid = <<>>
    /\ valid' = <<CheckBlueprintValidity(body, proposed)>>
    /\ UNCHANGED <<org, ret, pre, roll, frames, genome, attrs, newRes, body, proposed, popVars>>

GeomNext == CheckBlueprint

GeomSpec == GeomInit /\ [][GeomNext]_vars

----------------------------------------------------------------------------
(* Vocabulary of the lifecycle claims, stated from the outside of next_frame *)

\* a next_frame call has been made; pre, org, ret and roll describe it
Called == ret.state # "NoCall"

\* the integer part of v / unit, nearest to zero
TruncOf(v, unit) ==
    CHOOSE t \in -14..14 :
        /\ Abs(t) * unit <= Abs(v) /\ Abs(v) < (Abs(t) + 1) * unit
        /\ (t # 0 => (t > 0) = (v > 0))

\* trunc(metabolism x number of squares of body_squares)
ExpectedDrain(o) == TruncOf(MulF32(o.attributes.metabolism, Len(o.body_squares)), F32One)

\* the energy of the last call's organism after that frame's drain
DrainedEnergy == pre.energy - ExpectedDrain(pre)

\* every proposed square is nearer than 1.5 to some square: 4 * 1.5^2 = 9
AllAdjacent(squares, proposed_squares) ==
    \A i \in 1..Len(proposed_squares) :
        \E j \in 1..Len(squares) :
            (proposed_squares[i][1] - squares[j][1]) ^ 2
              + (proposed_squares[i][2] - squares[j][2]) ^ 2 < 9

\* every body of offspring o passes the check against the squares
BodiesFit(squares, o) ==
    \A k \in 1..Len(o.attributes.body_states) :
        AllAdjacent(squares, o.attributes.body_states[k])

\* the last call rolled reproduction, the roll passed and a candidate body failed
AbortCase ==
    /\ Called /\ roll.drawn /\ roll.will_reproduce
    /\ ~BodiesFit(pre.body_squares, roll.candidate[1])

\* C1: when the reproduction roll passes and a body of the candidate offspring
\* fails check_blueprint_validity against the parent's body_squares, next_frame
\* returns (Alive, None) and the parent's energy is its energy after the drain.
C1_AbortChargesNothing ==
    AbortCase =>
        /\ ret.state = "Alive" /\ ret.offspring = <<>>
        /\ org.energy = DrainedEnergy

\* C3: when the energy after the drain is <= 0 the call returns (Dead, None)
\* and nothing after the starvation check runs: age, body_states (all
\* attributes) are as before, no roll is drawn, the energy is the drained one.
C3_Starvation ==
    (Called /\ DrainedEnergy <= 0) =>
        /\ ret.state = "Dead" /\ ret.offspring = <<>>
        /\ org.age = pre.age
        /\ org.attributes = pre.attributes
        /\ ~roll.drawn
        /\ org.energy = DrainedEnergy

\* C3 witness: energy = trunc(metabolism x size) - 1 at frame start, drain >= 1
C3_Witness ==
    /\ Called /\ ExpectedDrain(pre) >= 1
    /\ pre.energy = ExpectedDrain(pre) - 1
    /\ ret.state = "Dead" /\ org.energy = -1

\* C4: with age = max_age - 1 at frame start and energy > 0 after the drain,
\* the call returns (Dead, None), and neither mutation nor reproduction
\* touched body_states or energy.
C4_AgingTerminal ==
    (Called /\ pre.age = pre.attributes.max_age - 1 /\ DrainedEnergy > 0) =>
        /\ ret.state = "Dead" /\ ret.offspring = <<>>
        /\ org.age = pre.attributes.max_age
        /\ org.attributes.body_states = pre.attributes.body_states
        /\ org.energy = DrainedEnergy
        /\ ~roll.drawn

\* C4 witness: an organism one frame short of max_age, after earlier frames
C4_Witness ==
    /\ Called /\ frames >= 2 /\ pre.age = pre.attributes.max_age - 1
    /\ DrainedEnergy > 0 /\ ret.state = "Dead"

\* C5: once a call has returned Dead, every later call on the organism
\* returns Dead with no offspring.
C5_DeadIsTerminal ==
    [][ret.state = "Dead" => (ret'.state = "Dead" /\ ret'.offspring = <<>>)]_vars

\* C5 witness: a call on an organism that was already dead of old age, whose
\* metabolism is negative, returned Dead again
C5_Witness ==
    /\ Called /\ pre.age >= pre.attributes.max_age
    /\ pre.attributes.metabolism < 0 /\ pre.energy > 0
    /\ ret.state = "Dead"

\* C5 witness for starvation: a call on a starved organism
C5_WitnessStarved ==
    /\ Called /\ pre.energy < 0 /\ ret.state = "Dead"

\* C6: Some(offspring) is returned only with Alive, a passed reproduction roll
\* and every offspring body valid against the parent's body_squares; Dead, a
\* failed roll or an invalid body give None.
C6_ResultEmission ==
    Called =>
        /\ ret.offspring # <<>> =>
             /\ ret.state = "Alive" /\ roll.drawn /\ roll.will_reproduce
             /\ BodiesFit(org.body_squares, ret.offspring[1])
             /\ ret.offspring = roll.candidate
        /\ (ret.state = "Dead" \/ ~roll.will_reproduce \/ AbortCase) =>
             ret.offspring = <<>>
        /\ (ret.state = "Alive" /\ roll.will_reproduce /\ ~AbortCase) =>
             ret.offspring # <<>>

\* C6 witness: an offspring was emitted
C6_Witness == Called /\ ret.offspring # <<>> /\ ret.state = "Alive"

\* C6 witness of the other side: the roll passed and nothing was emitted
C6_WitnessAbort == AbortCase /\ ret.offspring = <<>>

\* C10: an emitted offspring has half the parent's drained energy (integer
\* division) and the parent pays exactly that; Alive with None costs the
\* parent only the drain.
C10_EnergyCharge ==
    Called =>
        /\ ret.offspring # <<>> =>
             /\ 2 * ret.offspring[1].energy <= DrainedEnergy
             /\ DrainedEnergy <= 2 * ret.offspring[1].energy + 1
             /\ org.energy + ret.offspring[1].energy = DrainedEnergy
        /\ (ret.state = "Alive" /\ ret.offspring = <<>>) =>
             org.energy = DrainedEnergy

RECURSIVE PairSum(_, _, _, _)
\* the sum over the first n index pairs of the truncated difference on an axis
PairSum(current_squares, new_squares, axis, n) ==
    IF n = 0 THEN 0
    ELSE TruncOf(new_squares[n][axis] - current_squares[n][axis], 2)
         + PairSum(current_squares, new_squares, axis, n - 1)

Shorter(a, b) == IF Len(a) < Len(b) THEN Len(a) ELSE Len(b)

\* the body state the index pointed at when the last call began
PreNextBody == pre.attributes.body_states[pre.current_body_state + 1]

C9_WitnessTrunc ==
    /\ Called
    /\ \E i \in 1..Shorter(pre.body_squares, PreNextBody) :
          PreNextBody[i][1] - pre.body_squares[i][1] = -1

C9_WitnessUneven ==
    /\ Called /\ Len(PreNextBody) < Len(pre.body_squares)
    /\ org.location # pre.location

----------------------------------------------------------------------------
(* The construction claims *)

\* the attribute a gene kind writes
Field(a, kind) ==
    CASE kind = "MaxEnergy" -> a.max_energy
      [] kind = "MaxAge" -> a.max_age
      [] kind = "MaxSize" -> a.max_size
      [] kind = "PubertyAge" -> a.puberty_age
      [] kind = "ReproductionRate" -> a.reproduction_rate
      [] kind = "MutationRate" -> a.mutation_rate
      [] kind = "Metabolism" -> a.metabolism

IntKinds == {"MaxEnergy", "MaxAge", "MaxSize", "PubertyAge"}
F32Kinds == {"ReproductionRate", "MutationRate", "Metabolism"}

RECURSIVE DeltaSum(_, _, _)
\* the sum of the deltas of one kind among the first n genes
DeltaSum(g, kind, n) ==
    IF n = 0 THEN 0
    ELSE (IF g[n].kind = kind THEN g[n].num ELSE 0) + DeltaSum(g, kind, n - 1)

RECURSIVE DeltaFoldF32(_, _, _)
\* the deltas of one kind among the first n genes, added to the default one
\* at a time in genome order, each addition rounded to f32
DeltaFoldF32(g, kind, n) ==
    IF n = 0 THEN Field(DefaultAttributes, kind)
    ELSE IF g[n].kind = kind THEN RoundF32(DeltaFoldF32(g, kind, n - 1) + g[n].num)
    ELSE DeltaFoldF32(g, kind, n - 1)

RECURSIVE BodiesOf(_, _)
\* the body-state lists of the first n genes, concatenated in genome order
BodiesOf(g, n) ==
    IF n = 0 THEN <<>>
    ELSE BodiesOf(g, n - 1) \o (IF g[n].kind = "BodyStates" THEN g[n].bodies ELSE <<>>)

\* the genomes that hold the genes of g in another order
Reorderings(g) ==
    {[i \in 1..Len(g) |-> g[p[i]]] : p \in Permutations(1..Len(g))}

Folded(g) == ApplyGeneEffects(DefaultAttributes, g)

\* C2: for every id and every genome that contributes a body state,
\* Organism::new returns an organism with energy 1000, age 0, index 0, the
\* folded attributes and body_squares = body_states[0].
C2_Construction ==
    (newRes # NotBuilt /\ BodiesOf(genome, Len(genome)) # <<>>) =>
        /\ ~newRes.panicked
        /\ Len(newRes.organism) = 1
        /\ newRes.organism[1].energy = 1000
        /\ newRes.organism[1].age = 0
        /\ newRes.organism[1].current_body_state = 0
        /\ newRes.organism[1].attributes = Folded(genome)
        /\ newRes.organism[1].body_squares = Folded(genome).body_states[1]

\* C7 as claimed: every scalar is the default plus the sum of its deltas
\* whatever the order of the genes, and body_states is the concatenation in
\* genome order.
C7_FoldAnyOrder ==
    Len(attrs) = 1 =>
        /\ \A k \in IntKinds :
              Field(attrs[1], k) = Field(DefaultAttributes, k) + DeltaSum(genome, k, Len(genome))
        /\ \A h \in Reorderings(genome) :
              \A k \in IntKinds \cup F32Kinds : Field(Folded(h), k) = Field(attrs[1], k)
        /\ attrs[1].body_states = BodiesOf(genome, Len(genome))

\* C7 amended: the isize scalars are the default plus the sum of their deltas
\* in any order of the genes; the f32 scalars are the default with the deltas
\* added one at a time in genome order, each sum rounded to f32; body_states
\* is the concatenation in genome order.
C7_FoldInOrder ==
    Len(attrs) = 1 =>
        /\ \A k \in IntKinds :
              Field(attrs[1], k) = Field(DefaultAttributes, k) + DeltaSum(genome, k, Len(genome))
        /\ \A h \in Reorderings(genome) :
              \A k \in IntKinds : Field(Folded(h), k) = Field(attrs[1], k)
        /\ \A k \in F32Kinds :
              Field(attrs[1], k) = DeltaFoldF32(genome, k, Len(genome))
        /\ attrs[1].body_states = BodiesOf(genome, Len(genome))

\* C7 witness: a folded genome of three genes that holds a body state, and
\* whose metabolism another order of the same genes changes
C7_Witness ==
    /\ Len(attrs) = 1 /\ Len(genome) = 3
    /\ Len(attrs[1].body_states) >= 1
    /\ \E h \in Reorderings(genome) : Folded(h).metabolism # attrs[1].metabolism

\* C7 witness: body states appended by two genes and an isize delta applied
C7_WitnessBodies ==
    /\ Len(attrs) = 1 /\ Len(attrs[1].body_states) = 3
    /\ attrs[1].max_age = 3

----------------------------------------------------------------------------
(* The geometry claim *)

\* C8: check_blueprint_validity is true iff every proposed square is at
\* distance < 1.5 from some square of the body: true for an empty proposal,
\* false for a non-empty proposal on an empty body, true at distance 1.0 and
\* at the diagonal sqrt 2, false at distance 2.0 from a body of one square at
\* the origin.
C8_Adjacency ==
    Len(valid) = 1 =>
        /\ valid[1] = AllAdjacent(body, proposed)
        /\ proposed = <<>> => valid[1]
        /\ (body = <<>> /\ proposed # <<>>) => ~valid[1]
        /\ body = <<<<0, 0>>>> =>
             /\ proposed = <<<<2, 0>>>> => valid[1]
             /\ proposed = <<<<2, 2>>>> => valid[1]
             /\ proposed = <<<<-4, 0>>>> => ~valid[1]

\* C8 witness: distance exactly 2.0 from a body of one square at the origin
C8_Witness ==
    /\ Len(valid) = 1 /\ body = <<<<0, 0>>>> /\ proposed = <<<<-4, 0>>>>
    /\ ~valid[1]

\* C8 witness: distance exactly 1.0
C8_WitnessNear ==
    /\ Len(valid) = 1 /\ body = <<<<0, 0>>>> /\ proposed = <<<<2, 0>>>>
    /\ valid[1]

----------------------------------------------------------------------------
(* The later lifecycle claims *)

\* C11: every next_frame call, whatever it returns, advances
\* current_body_state to the next index and wraps to 0 after the last body
\* state: after k calls the index is (initial index + k) mod n, and it is back
\* at its start after exactly n calls.
C11_BodyStateCycling ==
    Called =>
        LET n == Len(pre.attributes.body_states)
        IN  /\ org.current_body_state = (pre.current_body_state + 1) % n
            /\ org.current_body_state = frames % n
            /\ (org.current_body_state = 0) = (frames % n = 0)

\* C11 witness: two body states, the second call wrapped the index to 0, and
\* a later call on the dead organism still advanced it
C11_Witness ==
    /\ Called /\ Len(pre.attributes.body_states) = 2
    /\ frames = 3 /\ pre.current_body_state = 0 /\ org.current_body_state = 1
    /\ ret.state = "Dead"

----------------------------------------------------------------------------
(* The mutation specification: mutate is called on an assembled organism *)

\* mutate calls made on the organism
MaxMutations == 2

MutateInit ==
    /\ org \in {Assemble(1, g, 1000) : g \in LifeGenomes}
    /\ ret = NoCall
    /\ pre = org
    /\ roll = NoRoll
    /\ frames = 0
    /\ FoldIdle
    /\ GeomIdle
    /\ PopIdle

\* organism.mutate()
CallMutate ==
    /\ frames < MaxMutations
    /\ \E offs \in OffsetChoices(org.attributes.body_states) :
          org' = Mutate(org, offs)
    /\ pre' = org
    /\ frames' = frames + 1
    /\ UNCHANGED <<ret, roll, genome, attrs, newRes, body, proposed, valid, popVars>>

MutateNext == CallMutate

MutateSpec == MutateInit /\ [][MutateNext]_vars

\* C12: mutate replaces body_states by a list of the same length whose k-th
\* body has as many squares as before, each coordinate moved by an offset in
\* [-1.0, 1.0) (half units: -2 <= d < 2), and leaves genome, the scalar
\* attributes, energy, age, location, body_squares and current_body_state as
\* they were.
C12_MutationIsGeometryOnly ==
    frames > 0 =>
        LET old == pre.attributes.body_states
            new == org.attributes.body_states
        IN  /\ Len(new) = Len(old)
            /\ \A k \in 1..Len(old) :
                  /\ Len(new[k]) = Len(old[k])
                  /\ \A i \in 1..Len(old[k]) : \A axis \in 1..2 :
                        /\ new[k][i][axis] - old[k][i][axis] >= -2
                        /\ new[k][i][axis] - old[k][i][axis] < 2
            /\ org.genome = pre.genome
            /\ \A f \in IntKinds \cup F32Kinds :
                  Field(org.attributes, f) = Field(pre.attributes, f)
            /\ org.energy = pre.energy /\ org.age = pre.age
            /\ org.location = pre.location /\ org.id = pre.id
            /\ org.body_squares = pre.body_squares
            /\ org.current_body_state = pre.current_body_state

\* C12 witness: a second mutate moved a square of a two-state list whose
\* first body has two squares
C12_Witness ==
    /\ frames = 2 /\ Len(org.attributes.body_states) = 2
    /\ Len(org.attributes.body_states[1]) = 2
    /\ org.attributes.body_states[1][2] # pre.attributes.body_states[1][2]
    /\ org.body_squares = pre.body_squares

----------------------------------------------------------------------------
(* Invariants of the lifecycle *)

C14_EnergyNeverIncreases ==
    Called => org.energy <= pre.energy

\* C14 amended: a call whose drain trunc(metabolism x square count) is not
\* negative does not increase the energy; a call whose drain is negative
\* and that pays for no offspring increases it by the size of the drain, and
\* nothing clamps it to max_energy.
C14_EnergyFollowsDrain ==
    Called =>
        /\ ExpectedDrain(pre) >= 0 => org.energy <= pre.energy
        /\ (ExpectedDrain(pre) < 0 /\ ~roll.will_reproduce) =>
              /\ org.energy = pre.energy - ExpectedDrain(pre)
              /\ org.energy > pre.energy

\* C14 witness: a frame that drained a positive amount and paid for an
\* emitted offspring
C14_Witness ==
    /\ Called /\ ExpectedDrain(pre) > 0
    /\ ret.state = "Alive" /\ ret.offspring # <<>>
    /\ org.energy < pre.energy - ExpectedDrain(pre)

\* C14 witness: the energy above max_energy after a negative drain
C14_WitnessGrowth ==
    /\ Called /\ ExpectedDrain(pre) < 0 /\ pre.energy = 1000
    /\ org.energy = 1001 /\ org.energy > org.attributes.max_energy

\* the index names a body state of the list
InRange(o) ==
    /\ o.current_body_state >= 0
    /\ o.current_body_state < Len(o.attributes.body_states)

\* C16: current_body_state stays within 0 .. len(body_states) - 1 for the
\* organism before and after every call (mutate inside the call keeps the
\* length of the list) and for each offspring at birth, so next_frame reads
\* the body state at the index and never falls back to body_states[0].
C16_IndexInRange ==
    /\ InRange(org) /\ InRange(pre)
    /\ Len(org.attributes.body_states) = Len(pre.attributes.body_states)
    /\ \A i \in 1..Len(roll.candidate) :
          InRange(roll.candidate[i]) /\ roll.candidate[i].current_body_state = 0
    /\ \A i \in 1..Len(ret.offspring) : InRange(ret.offspring[i])

\* C16 witness: a frame that mutated a two-state list, left the index at the
\* last state and emitted an offspring
C16_Witness ==
    /\ Called /\ roll.will_mutate /\ ret.offspring # <<>>
    /\ Len(org.attributes.body_states) = 2 /\ org.current_body_state = 1
    /\ org.attributes.body_states # pre.attributes.body_states

\* C17: an Alive return leaves energy > 0 and age < max_age; when the
\* reproduction roll passed the parent has paid half its drained energy,
\* rounded toward zero, and still has energy > 0.
C17_AliveIsViable ==
    ret.state = "Alive" =>
        /\ org.energy > 0
        /\ org.age < org.attributes.max_age
        /\ DrainedEnergy > 0
        /\ roll.will_reproduce =>
              /\ roll.candidate[1].energy = DrainedEnergy \div 2
              /\ org.energy = DrainedEnergy - roll.candidate[1].energy
        /\ ~roll.will_reproduce => org.energy = DrainedEnergy

\* C17 witness: a parent with drained energy 1 pays 0 for its offspring
C17_Witness ==
    /\ ret.state = "Alive" /\ roll.will_reproduce /\ ret.offspring # <<>>
    /\ DrainedEnergy = 1 /\ org.energy = 1 /\ ret.offspring[1].energy = 0

Max(a, b) == IF a >= b THEN a ELSE b

\* C18: age grows by exactly 1 in a frame that passes the starvation check
\* and is unchanged otherwise; a call made at age a with a + 1 >= max_age
\* returns Dead, and an organism built at age 0 has returned Dead by the call
\* number max(1, max_age), whatever the rolls.
C18_DiesInBoundedTime ==
    Called =>
        /\ org.age = (IF DrainedEnergy > 0 THEN pre.age + 1 ELSE pre.age)
        /\ pre.age + 1 >= pre.attributes.max_age => ret.state = "Dead"
        /\ frames >= Max(1, org.attributes.max_age) => ret.state = "Dead"
        /\ ret.state = "Alive" => org.age = frames

\* C18 witness: an organism of max_age 3 that rolled twice dies of age at
\* the third call
C18_Witness ==
    /\ frames = 3 /\ org.attributes.max_age = 3 /\ ret.state = "Dead"
    /\ org.age = 3 /\ org.energy > 0 /\ pre.age = 2

\* C18 witness: max_age -1, dead at the first call
C18_WitnessNegative ==
    /\ frames = 1 /\ org.attributes.max_age = -1 /\ ret.state = "Dead"
    /\ org.age = 1 /\ org.energy > 0

----------------------------------------------------------------------------
(* The population specification: a driver owns World.organisms and, tick by *)
(* tick, calls next_frame once on every organism in some order, then drops  *)
(* the Dead ones and appends the offspring.  The draws of each organism are *)
(* fixed when the tick begins.                                              *)

\* ticks the driver runs
MaxTicks == 2

\* the populations a run begins with: a two-state organism of max_age 2 and
\* either the uneven organism (drain 2, max_age 2) or a one-square organism
\* of max_age 3 and drain 1
PopFounders ==
    { <<Assemble(1, <<BodyGene(TwoStates), IntGene("MaxAge", -998)>>, e), Assemble(2, g, 1000)>> :
        e \in {1000, 3},
        g \in { <<BodyGene(UnevenStates), IntGene("MaxAge", -998),
                  F32Gene("Metabolism", 120795952), F32Gene("MutationRate", -13421773)>>,
                <<BodyGene(OneState), IntGene("MaxAge", -997),
                  F32Gene("Metabolism", 120795952)>> } }

\* the draws of a call in which no roll passes
Quiet ==
    [d1 |-> F32One \div 2, d2 |-> F32One \div 2, pm |-> <<0, 0>>,
     jitter |-> <<0, 0>>, om |-> <<0, 0>>]

\* the draws one call can make: both rolls fail; reproduction passes and the
\* offspring's squares move by (-1.0, -1.0); both rolls pass and every square
\* moves by (0.5, 0.5)
PopDraws ==
    { Quiet,
      [d1 |-> F32One \div 2, d2 |-> 0, pm |-> <<0, 0>>,
       jitter |-> <<-1, 0>>, om |-> <<-2, -2>>],
      [d1 |-> 0, d2 |-> 0, pm |-> <<1, 1>>, jitter |-> <<0, -1>>, om |-> <<1, 1>>] }

\* one mutate's draws when every square gets the offset d
OffsetsAll(body_states, d) == [i \in 1..TotalSquares(body_states) |-> d]

\* next_frame on organism o with the draws d
FrameOf(o, d) ==
    NextFrameOp(o, d.d1, d.d2, OffsetsAll(o.attributes.body_states, d.pm),
                d.jitter, OffsetsAll(o.attributes.body_states, d.om))

\* what the driver keeps of a call's return value and rolls
ReturnOf(r) ==
    [state |-> r.state, offspring |-> r.offspring, will_reproduce |-> r.will_reproduce]

\* the call returns Dead before it draws anything
Fated(o) == Starved(MoveCycleDrain(o)) \/ TooOld(Aged(MoveCycleDrain(o)))

\* a call whose ageing reaches every organism of the population
AdvanceSlotAgeingAll(p, i, o) ==
    [k \in 1..Len(p) |-> IF k = i THEN o ELSE [p[k] EXCEPT !.age = @ + 1]]

\* next_frame(&mut self): the call writes the organism it is made on
AdvanceSlot(p, i, o) == [p EXCEPT ![i] = o]

RECURSIVE Survivors(_, _, _)
\* the organisms of the first n slots whose call did not return Dead
Survivors(p, rs, n) ==
    IF n = 0 THEN <<>>
    ELSE Survivors(p, rs, n - 1) \o (IF rs[n][1].state = "Dead" THEN <<>> ELSE <<p[n]>>)

RECURSIVE Newborns(_, _)
\* the offspring returned by the calls on the first n slots
Newborns(rs, n) ==
    IF n = 0 THEN <<>> ELSE Newborns(rs, n - 1) \o rs[n][1].offspring

PopInit ==
    /\ pop \in PopFounders
    /\ founders = pop
    /\ start = <<>> /\ draws = <<>> /\ results = <<>>
    /\ phase = "idle" /\ ticks = 0
    /\ LifeIdle
    /\ FoldIdle
    /\ GeomIdle

\* the driver begins a tick; the draws of a call that returns Dead before it
\* rolls are never read and are fixed to Quiet
BeginTick ==
    /\ phase # "running" /\ ticks < MaxTicks /\ pop # <<>>
    /\ start' = pop
    /\ draws' \in {f \in [1..Len(pop) -> PopDraws] :
                     \A i \in 1..Len(pop) : Fated(pop[i]) => f[i] = Quiet}
    /\ results' = [i \in 1..Len(pop) |-> <<>>]
    /\ phase' = "running"
    /\ UNCHANGED <<org, ret, pre, roll, frames, genome, attrs, newRes, body, proposed,
                   valid, pop, ticks, founders>>

\* the driver calls next_frame on the organism of slot i
Advance(i) ==
    /\ phase = "running" /\ results[i] = <<>>
    /\ LET r == FrameOf(pop[i], draws[i])
       IN  /\ pop' = AdvanceSlot(pop, i, r.org)
           /\ results' = [results EXCEPT ![i] = <<ReturnOf(r)>>]
    /\ UNCHANGED <<org, ret, pre, roll, frames, genome, attrs, newRes, body, proposed,
                   valid, start, draws, phase, ticks, founders>>

\* every organism was advanced: the driver drops the Dead and appends the
\* offspring
EndTick ==
    /\ phase = "running" /\ \A i \in 1..Len(pop) : results[i] # <<>>
    /\ pop' = Survivors(pop, results, Len(pop)) \o Newborns(results, Len(results))
    /\ phase' = "ended"
    /\ ticks' = ticks + 1
    /\ UNCHANGED <<org, ret, pre, roll, frames, genome, attrs, newRes, body, proposed,
                   valid, start, draws, results, founders>>

PopNext == BeginTick \/ (\E i \in 1..Len(pop) : Advance(i)) \/ EndTick

PopSpec == PopInit /\ [][PopNext]_vars

----------------------------------------------------------------------------
(* The population claims *)

\* the population the tick leaves when the slots are advanced in slot order
TickOf(p, ds) ==
    LET after == [i \in 1..Len(p) |-> FrameOf(p[i], ds[i]).org]
        rets == [i \in 1..Len(p) |-> <<ReturnOf(FrameOf(p[i], ds[i]))>>]
    IN  Survivors(after, rets, Len(p)) \o Newborns(rets, Len(p))

\* C15: during a tick an organism that was not advanced yet is as it was when
\* the tick began, an advanced one is what next_frame makes of its own state
\* at the start of the tick and of its own draws, in whatever order the calls
\* were made; the population after the tick is the one the slot order yields.
C15_Independence ==
    /\ phase = "running" =>
          /\ Len(pop) = Len(start)
          /\ \A i \in 1..Len(pop) :
                IF results[i] = <<>> THEN pop[i] = start[i]
                ELSE /\ pop[i] = FrameOf(start[i], draws[i]).org
                     /\ results[i][1] = ReturnOf(FrameOf(start[i], draws[i]))
    /\ phase = "ended" => pop = TickOf(start, draws)

\* C15 witness: the second organism was advanced before the first, changed
\* and returned an offspring
C15_Witness ==
    /\ phase = "running" /\ Len(pop) = 2
    /\ results[1] = <<>> /\ results[2] # <<>>
    /\ results[2][1].offspring # <<>>
    /\ pop[2] # start[2] /\ pop[1] = start[1]

\* C15 witness: a tick of two organisms ended with one Dead removed and an
\* offspring appended
C15_WitnessEnded ==
    /\ phase = "ended" /\ Len(start) = 2 /\ Len(pop) = 2
    /\ results[1][1].state = "Dead" /\ results[2][1].offspring # <<>>
    /\ pop[2] = results[2][1].offspring[1]

\* C19: every organism of the population, and every offspring returned, has
\* the body_squares of the founder of its lineage (offspring carry their
\* parent's id), so the drain trunc(metabolism x square count) is the
\* founder's in every frame: a call that pays for no offspring lowers the
\* energy by exactly that amount.
C19_BodyIsConstant ==
    /\ \A i \in 1..Len(pop) :
          /\ pop[i].body_squares = founders[pop[i].id].body_squares
          /\ ExpectedDrain(pop[i]) = ExpectedDrain(founders[pop[i].id])
    /\ \A i \in 1..Len(results) :
          results[i] # <<>> =>
             /\ \A k \in 1..Len(results[i][1].offspring) :
                   results[i][1].offspring[k].body_squares
                     = founders[start[i].id].body_squares
             /\ (phase = "running" /\ ~results[i][1].will_reproduce) =>
                   pop[i].energy
                     = start[i].energy - ExpectedDrain(founders[start[i].id])

\* C19 witness: in the second tick an organism born in the first returned an
\* offspring whose body_squares is the founder's and not its own first body
\* state
C19_Witness ==
    /\ phase = "ended" /\ ticks = 2
    /\ \E i \in 1..Len(start) :
          /\ start[i].age = 0 /\ results[i][1].offspring # <<>>
          /\ results[i][1].offspring[1].body_squares = founders[start[i].id].body_squares
          /\ results[i][1].offspring[1].attributes.body_states[1]
               # results[i][1].offspring[1].body_squares

\* C19 witness: an organism that mutated and cycled to its second body state
\* with a drain of 2 in each of two frames
C19_WitnessDrain ==
    /\ phase = "running" /\ ticks = 1
    /\ \E i \in 1..Len(pop) :
          /\ results[i] # <<>> /\ ExpectedDrain(pop[i]) = 2
          /\ Len(pop[i].body_squares) = 2 /\ pop[i].age = 2

====
